---- MODULE Spec2Model ----
(***************************************************************************)
(* pyfootball: the Football client (pyfootball/football.py) and the        *)
(* Fixture value object (pyfootball/models/fixture.py).                    *)
(*                                                                         *)
(* Every call of the client is one atomic step: the library is fully       *)
(* synchronous.  The remote API is the environment: the status code and    *)
(* the JSON body of each response are chosen nondeterministically.         *)
(***************************************************************************)
EXTENDS Integers, Sequences, FiniteSets, TLC

VARIABLES
    env,            \* the environment variable PYFOOTBALL_API_KEY
    headers,        \* globals.headers: the X-Auth-Token sent with every request
    api_key,        \* globals.api_key
    prev_response,  \* globals.prev_response
    last_sent,      \* history: the last request that went out, and its status
    call,           \* history: the last call, the requests it sent and how it ended
    data,           \* the document handed to Fixture(data)
    fixture         \* the object Fixture(data) leaves behind

vars == <<env, headers, api_key, prev_response, last_sent, call, data, fixture>>

(***************************************************************************)
(* Bounds of the model.                                                    *)
(***************************************************************************)
\* longest list of a list-valued response
MaxItems == 2

(***************************************************************************)
(* Python / JSON values, tagged with their type.  A string is a sequence   *)
(* of tokens, so that len() and replace() act on it.                       *)
(***************************************************************************)
PyNone == [t |-> "none"]
PyInt(n) == [t |-> "int", v |-> n]
PyStr(s) == [t |-> "str", v |-> s]
PyList(s) == [t |-> "list", v |-> s]
PyDict(f) == [t |-> "dict", v |-> f]

\* truth value of a Python object, as tested by `if x:`
Truthy(x) ==
    CASE x.t = "none" -> FALSE
      [] x.t = "int"  -> x.v # 0
      [] x.t = "str"  -> Len(x.v) > 0
      [] x.t = "list" -> Len(x.v) > 0
      [] x.t = "dict" -> DOMAIN x.v # {}
      [] OTHER        -> TRUE

isinstance(x, type) == x.t = type

\* str(x) as str.format() renders an argument
Digit == <<"1", "2", "3", "4", "5", "6", "7", "8", "9">>
str(x) ==
    CASE x.t = "int" -> IF x.v = 0 THEN <<"0">> ELSE <<Digit[x.v]>>
      [] x.t = "str" -> x.v
      [] OTHER       -> <<"None">>

\* s.replace(" ", "%20")
replace(s) == [i \in 1..Len(s) |-> IF s[i] = " " THEN "%20" ELSE s[i]]

\* endpoints[name].format(arg): the URL template and what fills its slot
format(name, arg) == [tpl |-> name, arg |-> str(arg)]
endpoint_noarg(name) == [tpl |-> name, arg |-> <<>>]

(***************************************************************************)
(* The remote API: what a GET of an endpoint may answer.                   *)
(***************************************************************************)
ErrorStatus == {404, 500}
\* opaque JSON documents of competitions, teams, league tables, players
Bodies == {"docA", "docB"}
TeamIds == {6, 7}
TeamNames == {<<"A">>}

SeqsUpTo(S, n) == UNION {[1..k -> S] : k \in 0..n}

Response(status, json) == [status_code |-> status, json |-> json]
ErrorResponses == {Response(s, PyNone) : s \in ErrorStatus}

\* requests.Response.raise_for_status: raises HTTPError on 4xx and 5xx
raise_for_status(r) == r.status_code >= 400 /\ r.status_code < 600

(***************************************************************************)
(* models/fixture.py: Fixture.__init__                                     *)
(***************************************************************************)
\* `k in d` / d[k] succeeds, for a JSON object d
Has(d, k) == d.t = "dict" /\ k \in DOMAIN d.v
Get(d, k) == d.v[k]

\* d[p1][p2]... raises no KeyError
RECURSIVE HasPath(_, _)
HasPath(d, path) ==
    IF path = <<>> THEN TRUE
    ELSE Has(d, Head(path)) /\ HasPath(Get(d, Head(path)), Tail(path))

RECURSIVE GetPath(_, _)
GetPath(d, path) ==
    IF path = <<>> THEN d ELSE GetPath(Get(d, Head(path)), Tail(path))

\* href.split("/")[-1]
split_last(s) ==
    LET slashes == {i \in 1..Len(s) : s[i] = "/"}
        last == CHOOSE i \in slashes : \A j \in slashes : j <= i
    IN IF slashes = {} THEN s ELSE SubSeq(s, last + 1, Len(s))

\* one statement of the try block: the attribute it assigns, whether its
\* right-hand side evaluates without KeyError, and the value assigned
Stmt(attr, ok, val) == [attr |-> attr, ok |-> ok, val |-> val]

\* self.<attr> = data[path...]
Copy(d, attr, path) ==
    Stmt(attr, HasPath(d, path), IF HasPath(d, path) THEN GetPath(d, path) ELSE PyNone)

\* self.<attr> = self.<ep>.split("/")[-1]
IdOf(d, attr, path) ==
    Stmt(attr, TRUE,
         IF HasPath(d, path) THEN PyStr(split_last(GetPath(d, path).v)) ELSE PyNone)

\* lines 26-38: self.result, without the half-time entry
ResultStmt(d) ==
    LET res  == Get(d, "result")
        hasG == Has(d, "result") /\ Has(res, "goalsHomeTeam")
        played == hasG /\ Get(res, "goalsHomeTeam").t # "none"
        ok   == hasG /\ (played => Has(res, "goalsAwayTeam"))
    IN Stmt("result", ok,
            IF ok /\ played
            THEN PyDict([home_team_goals |-> Get(res, "goalsHomeTeam"),
                         away_team_goals |-> Get(res, "goalsAwayTeam")])
            ELSE PyNone)

\* lines 31-36: self.result['half_time'] = {...}, only inside the played branch
HalfTimeStmt(d) ==
    LET base == ResultStmt(d)
        res  == Get(d, "result")
        has  == base.ok /\ base.val.t = "dict" /\ Has(res, "halfTime")
        ht   == Get(res, "halfTime")
        ok   == has => (Has(ht, "goalsHomeTeam") /\ Has(ht, "goalsAwayTeam"))
    IN Stmt("result", ok,
            IF has /\ ok
            THEN PyDict([home_team_goals |-> base.val.v.home_team_goals,
                         away_team_goals |-> base.val.v.away_team_goals,
                         half_time |-> PyDict([home_team_goals |-> Get(ht, "goalsHomeTeam"),
                                               away_team_goals |-> Get(ht, "goalsAwayTeam")])])
            ELSE base.val)

\* lines 40-47: self.odds
OddsStmt(d) ==
    LET odds == Get(d, "odds")
        some == Has(d, "odds") /\ Truthy(odds)
        ok   == Has(d, "odds") /\
                (some => (Has(odds, "homeWin") /\ Has(odds, "draw") /\ Has(odds, "awayWin")))
    IN Stmt("odds", ok,
            IF ok /\ some
            THEN PyDict([home_win |-> Get(odds, "homeWin"),
                         draw |-> Get(odds, "draw"),
                         away_win |-> Get(odds, "awayWin")])
            ELSE PyNone)

\* the statements of the try block, lines 14-47, in program order
TryBlock(d) ==
    << Copy(d, "_home_team_ep", <<"_links", "homeTeam", "href">>),
       Copy(d, "_away_team_ep", <<"_links", "awayTeam", "href">>),
       Copy(d, "_competition_ep", <<"_links", "competition", "href">>),
       Copy(d, "date", <<"date">>),
       Copy(d, "status", <<"status">>),
       Copy(d, "matchday", <<"matchday">>),
       Copy(d, "home_team", <<"homeTeamName">>),
       IdOf(d, "home_team_id", <<"_links", "homeTeam", "href">>),
       Copy(d, "away_team", <<"awayTeamName">>),
       IdOf(d, "away_team_id", <<"_links", "awayTeam", "href">>),
       IdOf(d, "competition_id", <<"_links", "competition", "href">>),
       ResultStmt(d),
       HalfTimeStmt(d),
       OddsStmt(d) >>

\* number of statements executed before the first KeyError (all, if none)
Executed(stmts) ==
    LET bad == {i \in 1..Len(stmts) : ~stmts[i].ok}
    IN IF bad = {} THEN Len(stmts)
       ELSE (CHOOSE i \in bad : \A j \in bad : i <= j) - 1

\* `except KeyError: traceback.print_exc()`: the KeyError is caught, a trace
\* is printed and __init__ returns normally
except_KeyError(keyError) == [exc |-> "none", traced |-> keyError]

\* Fixture(data): the attributes the object ends up with, and how __init__ ended
Fixture(d) ==
    LET stmts == TryBlock(d)
        n     == Executed(stmts)
        names == {stmts[i].attr : i \in 1..n}
        lastOf(a) == CHOOSE i \in 1..n :
                        stmts[i].attr = a /\ \A j \in 1..n : stmts[j].attr = a => j <= i
        h     == except_KeyError(n < Len(stmts))
    IN [t |-> "obj", cls |-> "Fixture",
        attrs |-> [a \in names |-> stmts[lastOf(a)].val],
        exc |-> h.exc, traced |-> h.traced]

(***************************************************************************)
(* Fixture documents the API may send: a complete document, and the        *)
(* documents that lack one required key or any of the optional parts.      *)
(***************************************************************************)
Without(d, k) == PyDict([x \in DOMAIN d.v \ {k} |-> d.v[x]])
With(d, k, val) == PyDict([x \in DOMAIN d.v \cup {k} |-> IF x = k THEN val ELSE d.v[x]])

Link(href) == PyDict([href |-> PyStr(href)])
HomeHrefs == {<<"teams", "/", "6">>, <<"teams", "/", "6", "/">>}
FullLinks(home) ==
    PyDict([homeTeam |-> Link(home),
            awayTeam |-> Link(<<"teams", "/", "7">>),
            competition |-> Link(<<"v1", "/", "competitions", "/", "4">>)])

LinkNames == {"homeTeam", "awayTeam", "competition"}
LinksVariants ==
    {FullLinks(h) : h \in HomeHrefs}
    \cup {Without(FullLinks(<<"teams", "/", "6">>), k) : k \in LinkNames}
    \cup {With(FullLinks(<<"teams", "/", "6">>), k, PyDict(<<>>)) : k \in LinkNames}

\* the required part of a document: every required key present
RequiredDoc(links) ==
    PyDict([_links |-> links,
            date |-> PyStr(<<"2016-08-13">>),
            status |-> PyStr(<<"FINISHED">>),
            matchday |-> PyInt(1),
            homeTeamName |-> PyStr(<<"Hull">>),
            awayTeamName |-> PyStr(<<"Leicester">>)])

RequiredKeys == {"_links", "date", "status", "matchday", "homeTeamName", "awayTeamName"}
RequiredPaths ==
    {<<"_links", l, "href">> : l \in LinkNames}
    \cup {<<k>> : k \in RequiredKeys \ {"_links"}}

RequiredVariants ==
    {RequiredDoc(l) : l \in LinksVariants}
    \cup {Without(RequiredDoc(FullLinks(<<"teams", "/", "6">>)), k) : k \in RequiredKeys}

Goals(h, a) == PyDict([goalsHomeTeam |-> h, goalsAwayTeam |-> a])
ResultValues ==
    { Goals(PyNone, PyNone),
      Goals(PyInt(2), PyInt(1)),
      With(Goals(PyInt(2), PyInt(1)), "halfTime", Goals(PyInt(1), PyInt(0))),
      PyDict(<<>>) }
OddsValues ==
    { PyNone,
      PyDict(<<>>),
      PyDict([homeWin |-> PyInt(2), draw |-> PyInt(3), awayWin |-> PyInt(4)]) }

WithOptional(d, k, vals) == {d} \cup {With(d, k, v) : v \in vals}

Docs ==
    UNION { UNION { WithOptional(dr, "odds", OddsValues)
                    : dr \in WithOptional(d, "result", ResultValues) }
            : d \in RequiredVariants }

\* every required key of the document is present
HasRequired(d) == \A p \in RequiredPaths : HasPath(d, p)

NotBuilt == [t |-> "none"]

(***************************************************************************)
(* Constructing a Fixture from a document, on its own.                     *)
(***************************************************************************)
FixtureInit ==
    /\ env = PyNone /\ headers = PyNone /\ api_key = PyNone
    /\ prev_response = PyNone /\ last_sent = PyNone
    /\ call = [op |-> "none"]
    /\ data \in Docs
    /\ fixture = NotBuilt

\* fixture = Fixture(data)
Construct ==
    /\ fixture = NotBuilt
    /\ fixture' = Fixture(data)
    /\ UNCHANGED <<env, headers, api_key, prev_response, last_sent, call, data>>

FixtureNext == Construct

FixtureSpec == FixtureInit /\ [][FixtureNext]_vars

(***************************************************************************)
(* The Football client, football.py.                                       *)
(***************************************************************************)
\* documents of the fixture endpoints, as seen through the client
ClientDocs ==
    { With(With(RequiredDoc(FullLinks(<<"teams", "/", "6">>)),
                "result", Goals(PyInt(2), PyInt(1))), "odds", PyNone),
      RequiredDoc(FullLinks(<<"teams", "/", "6">>)),
      Without(RequiredDoc(FullLinks(<<"teams", "/", "6">>)), "date") }

PyDoc(b) == [t |-> "doc", v |-> b]

\* Fixture(d) of each of these documents, evaluated once
FixtureOf == [d \in ClientDocs |-> Fixture(d)]

DocLists == {PyList(s) : s \in SeqsUpTo({PyDoc(b) : b \in Bodies}, MaxItems)}
FixtureLists == {PyList(s) : s \in SeqsUpTo(ClientDocs, MaxItems)}

\* the answer to /teams?name=...: a count and a list of matches
\* values of the 'count' field: `is 0` only tells 0 from the rest
Counts == {0, 1}
Matches == {PyDict([id |-> PyInt(i), name |-> PyStr(n)]) : i \in TeamIds, n \in TeamNames}
\* a search answer lists each matching team once, in any order
Injective(s) == \A i, j \in 1..Len(s) : s[i].v.id = s[j].v.id => i = j
MatchLists == {s \in SeqsUpTo(Matches, Cardinality(TeamIds)) : Injective(s)}
SearchResults ==
    {PyDict([count |-> PyInt(c), teams |-> PyList(s)]) : c \in Counts, s \in MatchLists}

is_search(endpoint) == endpoint.tpl = "team" /\ Len(endpoint.arg) > 0 /\ endpoint.arg[1] = "?name="

\* the JSON bodies a successful GET of the endpoint may carry
OkJson(endpoint) ==
    CASE endpoint.tpl \in {"competition", "league_table"} -> {PyDoc(b) : b \in Bodies}
      [] endpoint.tpl = "all_competitions" -> DocLists
      [] endpoint.tpl \in {"comp_fixtures", "all_fixtures", "team_fixtures"} ->
            {PyDict([fixtures |-> l]) : l \in FixtureLists}
      [] endpoint.tpl = "comp_teams" -> {PyDict([teams |-> l]) : l \in DocLists}
      [] endpoint.tpl = "team_players" -> {PyDict([players |-> l]) : l \in DocLists}
      [] endpoint.tpl = "fixture" -> {PyDict([fixture |-> d]) : d \in ClientDocs}
      [] endpoint.tpl = "team" ->
            IF is_search(endpoint) THEN SearchResults ELSE {PyDoc(b) : b \in Bodies}

\* requests.get(endpoint, headers=globals.headers): what may come back
requests_get(endpoint) == ErrorResponses \cup {Response(200, j) : j \in OkJson(endpoint)}

\* globals.update_prev_response(r, endpoint): the new last-response record
update_prev_response(r, endpoint) ==
    [t |-> "prev", endpoint |-> endpoint, status_code |-> r.status_code]

\* the other value objects: each wraps the document it is built from
Competition(d) == [t |-> "obj", cls |-> "Competition", data |-> d]
LeagueTable(d) == [t |-> "obj", cls |-> "LeagueTable", data |-> d]
Team(d) == [t |-> "obj", cls |-> "Team", data |-> d]
Player(d) == [t |-> "obj", cls |-> "Player", data |-> d]

\* bookkeeping of a call: the requests it sent, in order, and how it ended
Sent(endpoint, token, r) ==
    [endpoint |-> endpoint, token |-> token, status_code |-> r.status_code, json |-> r.json]
Wire(endpoint, r) == [t |-> "wire", endpoint |-> endpoint, status_code |-> r.status_code]
NoReturn == [t |-> "noreturn"]
Raise(e) == [exc |-> e, ret |-> NoReturn]
Return(v) == [exc |-> "none", ret |-> v]
Call(op, args, reqs, end) ==
    [op |-> op, args |-> args, reqs |-> reqs, exc |-> end.exc, ret |-> end.ret]

\* a Football object exists once a construction has succeeded
HasInstance == api_key.t # "none"

ApiKeys == {PyNone, PyStr(<<>>), PyStr(<<"k1">>)}
EnvKeys == {PyNone, PyStr(<<>>), PyStr(<<"kE">>)}
Ids == {PyInt(6)}

Init ==
    /\ env \in EnvKeys
    /\ headers = PyNone
    /\ api_key = PyNone
    /\ prev_response = PyNone
    /\ last_sent = PyNone
    /\ call = [op |-> "none", args |-> <<>>, reqs |-> <<>>, exc |-> "none", ret |-> NoReturn]
    /\ data = PyNone
    /\ fixture = NotBuilt

\* mutant of find_key: `if api_key is not None` instead of `if api_key`
find_key_not_none(key_arg, getenv) ==
    IF key_arg.t # "none" THEN key_arg
    ELSE IF Truthy(getenv) THEN getenv
    ELSE PyNone

\* lines 25-32: the key of the keyword argument, else of the environment
\* variable; PyNone when neither holds one (the ValueError branch)
find_key(key_arg, getenv) ==
    IF Truthy(key_arg) THEN key_arg
    ELSE IF Truthy(getenv) THEN getenv
    ELSE PyNone

\* Football(api_key), lines 25-39
Football_init(key_arg) ==
    IF find_key(key_arg, env).t = "none"
    THEN /\ call' = Call("__init__", <<key_arg>>, <<>>, Raise("ValueError"))
         /\ UNCHANGED <<env, headers, api_key, prev_response, last_sent, data, fixture>>
    ELSE LET key == find_key(key_arg, env)
             endpoint == endpoint_noarg("all_competitions")
         IN \E r \in requests_get(endpoint) :
               /\ headers' = key
               /\ prev_response' = update_prev_response(r, endpoint)
               /\ last_sent' = Wire(endpoint, r)
               /\ api_key' = IF raise_for_status(r) THEN api_key ELSE key
               /\ call' = Call("__init__", <<key_arg>>, <<Sent(endpoint, key, r)>>,
                               IF raise_for_status(r) THEN Raise("HTTPError")
                               ELSE Return(PyNone))
               /\ UNCHANGED <<env, data, fixture>>

\* get_prev_response(), line 46
get_prev_response ==
    /\ HasInstance
    /\ call' = Call("get_prev_response", <<>>, <<>>, Return(prev_response))
    /\ UNCHANGED <<env, headers, api_key, prev_response, last_sent, data, fixture>>

\* mutant of get_competition: r.raise_for_status() left out
get_competition_no_raise(comp_id) ==
    LET endpoint == format("competition", comp_id)
    IN \E r \in requests_get(endpoint) :
          /\ HasInstance
          /\ prev_response' = update_prev_response(r, endpoint)
          /\ last_sent' = Wire(endpoint, r)
          /\ call' = Call("get_competition", <<comp_id>>, <<Sent(endpoint, headers, r)>>,
                          Return(Competition(r.json)))
          /\ UNCHANGED <<env, headers, api_key, data, fixture>>

\* get_competition(comp_id), lines 58-63
get_competition(comp_id) ==
    LET endpoint == format("competition", comp_id)
    IN \E r \in requests_get(endpoint) :
          /\ HasInstance
          /\ prev_response' = update_prev_response(r, endpoint)
          /\ last_sent' = Wire(endpoint, r)
          /\ call' = Call("get_competition", <<comp_id>>, <<Sent(endpoint, headers, r)>>,
                          IF raise_for_status(r) THEN Raise("HTTPError")
                          ELSE Return(Competition(r.json)))
          /\ UNCHANGED <<env, headers, api_key, data, fixture>>

\* get_all_competitions(), lines 73-82
get_all_competitions ==
    LET endpoint == endpoint_noarg("all_competitions")
    IN \E r \in requests_get(endpoint) :
          /\ HasInstance
          /\ prev_response' = update_prev_response(r, endpoint)
          /\ last_sent' = Wire(endpoint, r)
          /\ call' = Call("get_all_competitions", <<>>, <<Sent(endpoint, headers, r)>>,
                          IF raise_for_status(r) THEN Raise("HTTPError")
                          ELSE Return(PyList([i \in 1..Len(r.json.v) |-> Competition(r.json.v[i])])))
          /\ UNCHANGED <<env, headers, api_key, data, fixture>>

\* get_league_table(comp_id), lines 95-100
get_league_table(comp_id) ==
    LET endpoint == format("league_table", comp_id)
    IN \E r \in requests_get(endpoint) :
          /\ HasInstance
          /\ prev_response' = update_prev_response(r, endpoint)
          /\ last_sent' = Wire(endpoint, r)
          /\ call' = Call("get_league_table", <<comp_id>>, <<Sent(endpoint, headers, r)>>,
                          IF raise_for_status(r) THEN Raise("HTTPError")
                          ELSE Return(LeagueTable(r.json)))
          /\ UNCHANGED <<env, headers, api_key, data, fixture>>

\* get_comp_fixtures(comp_id), lines 113-122
get_comp_fixtures(comp_id) ==
    LET endpoint == format("comp_fixtures", comp_id)
    IN \E r \in requests_get(endpoint) :
          /\ HasInstance
          /\ prev_response' = update_prev_response(r, endpoint)
          /\ last_sent' = Wire(endpoint, r)
          /\ call' = Call("get_comp_fixtures", <<comp_id>>, <<Sent(endpoint, headers, r)>>,
                          IF raise_for_status(r) THEN Raise("HTTPError")
                          ELSE Return(PyList([i \in 1..Len(Get(r.json, "fixtures").v) |->
                                                 FixtureOf[Get(r.json, "fixtures").v[i]]])))
          /\ UNCHANGED <<env, headers, api_key, data, fixture>>

\* get_competition_teams(comp_id), lines 135-144
get_competition_teams(comp_id) ==
    LET endpoint == format("comp_teams", comp_id)
    IN \E r \in requests_get(endpoint) :
          /\ HasInstance
          /\ prev_response' = update_prev_response(r, endpoint)
          /\ last_sent' = Wire(endpoint, r)
          /\ call' = Call("get_competition_teams", <<comp_id>>, <<Sent(endpoint, headers, r)>>,
                          IF raise_for_status(r) THEN Raise("HTTPError")
                          ELSE Return(PyList([i \in 1..Len(Get(r.json, "teams").v) |->
                                                 Team(Get(r.json, "teams").v[i])])))
          /\ UNCHANGED <<env, headers, api_key, data, fixture>>

\* get_fixture(fixture_id), lines 158-163
get_fixture(fixture_id) ==
    LET endpoint == format("fixture", fixture_id)
    IN \E r \in requests_get(endpoint) :
          /\ HasInstance
          /\ prev_response' = update_prev_response(r, endpoint)
          /\ last_sent' = Wire(endpoint, r)
          /\ call' = Call("get_fixture", <<fixture_id>>, <<Sent(endpoint, headers, r)>>,
                          IF raise_for_status(r) THEN Raise("HTTPError")
                          ELSE Return(FixtureOf[Get(r.json, "fixture")]))
          /\ UNCHANGED <<env, headers, api_key, data, fixture>>

\* get_all_fixtures(), lines 174-183
get_all_fixtures ==
    LET endpoint == endpoint_noarg("all_fixtures")
    IN \E r \in requests_get(endpoint) :
          /\ HasInstance
          /\ prev_response' = update_prev_response(r, endpoint)
          /\ last_sent' = Wire(endpoint, r)
          /\ call' = Call("get_all_fixtures", <<>>, <<Sent(endpoint, headers, r)>>,
                          IF raise_for_status(r) THEN Raise("HTTPError")
                          ELSE Return(PyList([i \in 1..Len(Get(r.json, "fixtures").v) |->
                                                 FixtureOf[Get(r.json, "fixtures").v[i]]])))
          /\ UNCHANGED <<env, headers, api_key, data, fixture>>

\* get_team_players(team_id), lines 242-251
get_team_players(team_id) ==
    LET endpoint == format("team_players", team_id)
    IN \E r \in requests_get(endpoint) :
          /\ HasInstance
          /\ prev_response' = update_prev_response(r, endpoint)
          /\ last_sent' = Wire(endpoint, r)
          /\ call' = Call("get_team_players", <<team_id>>, <<Sent(endpoint, headers, r)>>,
                          IF raise_for_status(r) THEN Raise("HTTPError")
                          ELSE Return(PyList([i \in 1..Len(Get(r.json, "players").v) |->
                                                 Player(Get(r.json, "players").v[i])])))
          /\ UNCHANGED <<env, headers, api_key, data, fixture>>

\* get_team_fixtures(team_id), lines 264-273
get_team_fixtures(team_id) ==
    LET endpoint == format("team_fixtures", team_id)
    IN \E r \in requests_get(endpoint) :
          /\ HasInstance
          /\ prev_response' = update_prev_response(r, endpoint)
          /\ last_sent' = Wire(endpoint, r)
          /\ call' = Call("get_team_fixtures", <<team_id>>, <<Sent(endpoint, headers, r)>>,
                          IF raise_for_status(r) THEN Raise("HTTPError")
                          ELSE Return(PyList([i \in 1..Len(Get(r.json, "fixtures").v) |->
                                                 FixtureOf[Get(r.json, "fixtures").v[i]]])))
          /\ UNCHANGED <<env, headers, api_key, data, fixture>>

\* the dict built by `for team in data['teams']: matches[team['id']] = team['name']`
matches_of(teams) ==
    LET ids == {Get(teams[i], "id").v : i \in 1..Len(teams)}
        lastOf(id) == CHOOSE i \in 1..Len(teams) :
                         /\ Get(teams[i], "id").v = id
                         /\ \A j \in 1..Len(teams) : Get(teams[j], "id").v = id => j <= i
    IN PyDict([id \in ids |-> Get(teams[lastOf(id)], "name")])

\* `data['count'] is 0`
count_is_0(d) == Get(d, "count").t = "int" /\ Get(d, "count").v = 0

\* '?name=' + team_name.replace(" ", "%20")
name_query(team_name) == PyStr(<<"?name=">> \o replace(team_name.v))

\* search_teams(team_name), lines 288-301
search_teams(team_name) ==
    LET endpoint == format("team", name_query(team_name))
    IN \E r \in requests_get(endpoint) :
          /\ HasInstance
          /\ prev_response' = update_prev_response(r, endpoint)
          /\ last_sent' = Wire(endpoint, r)
          /\ call' = Call("search_teams", <<team_name>>, <<Sent(endpoint, headers, r)>>,
                          IF raise_for_status(r) THEN Raise("HTTPError")
                          ELSE IF count_is_0(r.json) THEN Return(PyNone)
                          ELSE Return(matches_of(Get(r.json, "teams").v)))
          /\ UNCHANGED <<env, headers, api_key, data, fixture>>

\* line 218: `len(data['teams']) == 0`
no_matches(d) == Len(Get(d, "teams").v) = 0

\* mutant of team_not_found: a lookup error instead of `return None`
team_not_found_raises == Raise("LookupError")

\* line 219: `return None`
team_not_found == Return(PyNone)

\* mutant of first_match: data['teams'][-1]['id']
last_match(d) == Get(Get(d, "teams").v[Len(Get(d, "teams").v)], "id")

\* line 220: data['teams'][0]['id']
first_match(d) == Get(Get(d, "teams").v[1], "id")

\* which branch of get_team the arguments select, lines 203, 210 and 226
by_id(team_id) == Truthy(team_id) /\ isinstance(team_id, "int")
by_name(team_id, team_name) ==
    ~by_id(team_id) /\ Truthy(team_name) /\ isinstance(team_name, "str")

\* get_team(team_id, team_name), lines 203-228
get_team(team_id, team_name) ==
    /\ HasInstance
    /\ UNCHANGED <<env, headers, api_key, data, fixture>>
    /\ IF by_id(team_id)
       THEN LET endpoint == format("team", team_id)
            IN \E r \in requests_get(endpoint) :
                  /\ prev_response' = update_prev_response(r, endpoint)
                  /\ last_sent' = Wire(endpoint, r)
                  /\ call' = Call("get_team", <<team_id, team_name>>,
                                  <<Sent(endpoint, headers, r)>>,
                                  IF raise_for_status(r) THEN Raise("HTTPError")
                                  ELSE Return(Team(r.json)))
       ELSE IF by_name(team_id, team_name)
       THEN IF Len(team_name.v) < 3
            THEN /\ call' = Call("get_team", <<team_id, team_name>>, <<>>, Raise("ValueError"))
                 /\ UNCHANGED <<prev_response, last_sent>>
            ELSE LET search == format("team", name_query(team_name))
                 IN \E r1 \in requests_get(search) :
                       IF raise_for_status(r1)
                       THEN /\ call' = Call("get_team", <<team_id, team_name>>,
                                            <<Sent(search, headers, r1)>>, Raise("HTTPError"))
                            /\ last_sent' = Wire(search, r1)
                            /\ UNCHANGED prev_response
                       ELSE IF no_matches(r1.json)
                       THEN /\ call' = Call("get_team", <<team_id, team_name>>,
                                            <<Sent(search, headers, r1)>>, team_not_found)
                            /\ last_sent' = Wire(search, r1)
                            /\ UNCHANGED prev_response
                       ELSE LET endpoint == format("team", first_match(r1.json))
                            IN \E r \in requests_get(endpoint) :
                                  /\ prev_response' = update_prev_response(r, endpoint)
                                  /\ last_sent' = Wire(endpoint, r)
                                  /\ call' = Call("get_team", <<team_id, team_name>>,
                                                  << Sent(search, headers, r1),
                                                     Sent(endpoint, headers, r) >>,
                                                  IF raise_for_status(r) THEN Raise("HTTPError")
                                                  ELSE Return(Team(r.json)))
       ELSE /\ call' = Call("get_team", <<team_id, team_name>>, <<>>, Raise("ValueError"))
            /\ UNCHANGED <<prev_response, last_sent>>

TeamIdArgs == {PyNone, PyInt(0), PyInt(6), PyStr(<<"6">>)}
Names == {PyStr(<<"a", "b">>), PyStr(<<"a", " ", "b">>)}
TeamNameArgs == {PyNone} \cup Names

Next ==
    \/ \E key_arg \in ApiKeys : Football_init(key_arg)
    \/ get_prev_response
    \/ \E comp_id \in Ids : get_competition(comp_id)
    \/ get_all_competitions
    \/ \E comp_id \in Ids : get_league_table(comp_id)
    \/ \E comp_id \in Ids : get_comp_fixtures(comp_id)
    \/ \E comp_id \in Ids : get_competition_teams(comp_id)
    \/ \E fixture_id \in Ids : get_fixture(fixture_id)
    \/ get_all_fixtures
    \/ \E team_id \in TeamIdArgs, team_name \in TeamNameArgs : get_team(team_id, team_name)
    \/ \E team_id \in Ids : get_team_players(team_id)
    \/ \E team_id \in Ids : get_team_fixtures(team_id)
    \/ \E team_name \in Names : search_teams(team_name)

Spec == Init /\ [][Next]_vars

(***************************************************************************)
(* Properties of the client.                                               *)
(***************************************************************************)
QueryOps ==
    {"get_competition", "get_all_competitions", "get_league_table", "get_comp_fixtures",
     "get_competition_teams", "get_fixture", "get_all_fixtures", "get_team",
     "get_team_players", "get_team_fixtures", "search_teams"}

IsError(status) == status >= 400 /\ status <= 599
SomeErrorStatus(c) == \E i \in 1..Len(c.reqs) : IsError(c.reqs[i].status_code)

\* the arguments of a get_team call
TeamId(c) == c.args[1]
TeamName(c) == c.args[2]
UsableId(c) == TeamId(c).t = "int" /\ TeamId(c).v # 0
NameBased(c) ==
    c.op = "get_team" /\ ~UsableId(c) /\ TeamName(c).t = "str" /\ Len(TeamName(c).v) > 0
IsSearchOf(req, team_name) ==
    req.endpoint = [tpl |-> "team", arg |-> <<"?name=">> \o replace(team_name.v)]
IsTeamById(req, id) == req.endpoint = [tpl |-> "team", arg |-> str(id)]

\* C1: a query method that received a 4xx/5xx status for any request it sent
\* ends by raising an error and returns no object.
C1_ErrorStatusRaises ==
    (call.op \in QueryOps /\ SomeErrorStatus(call))
        => (call.exc = "HTTPError" /\ call.ret = NoReturn)

C1_Witness ==
    /\ call.op = "get_team" /\ Len(call.reqs) = 2
    /\ ~IsError(call.reqs[1].status_code) /\ IsError(call.reqs[2].status_code)
    /\ call.exc = "HTTPError"

\* C2: name-based get_team (name of at least 3 characters) whose search succeeds
\* with an empty team list returns None, raises nothing and sends no second request.
C2_ZeroMatchesReturnsNone ==
    ( /\ NameBased(call) /\ Len(TeamName(call).v) >= 3
      /\ Len(call.reqs) >= 1
      /\ ~IsError(call.reqs[1].status_code)
      /\ Len(call.reqs[1].json.v.teams.v) = 0 )
        => (call.exc = "none" /\ call.ret = PyNone /\ Len(call.reqs) = 1)

C2_Witness ==
    /\ NameBased(call) /\ Len(call.reqs) = 1
    /\ call.reqs[1].status_code = 200
    /\ Len(call.reqs[1].json.v.teams.v) = 0
    /\ call.reqs[1].json.v.count.v > 0
    /\ call.ret = PyNone

\* C5: Football() without a key in the argument and in the environment raises
\* ValueError at once: no request is sent, and the auth header, the api_key
\* record and the last-response record stay as they were.
C5_NoKeyRaisesAtOnce ==
    [][ (call'.op = "__init__" /\ ~Truthy(call'.args[1]) /\ ~Truthy(env))
            => /\ call'.exc = "ValueError" /\ call'.ret = NoReturn
               /\ call'.reqs = <<>>
               /\ last_sent' = last_sent
               /\ headers' = headers /\ api_key' = api_key
               /\ prev_response' = prev_response ]_vars

C5_Witness ==
    /\ call.op = "__init__" /\ call.exc = "ValueError"
    /\ call.args[1] = PyStr(<<>>) /\ env = PyStr(<<>>)
    /\ HasInstance /\ prev_response # PyNone

\* C6 (as claimed): the last-response record is always the record of the most
\* recent request actually sent, whichever call sent it.
C6_PrevResponseIsLastSent ==
    prev_response = IF last_sent = PyNone THEN PyNone
                    ELSE update_prev_response(last_sent, last_sent.endpoint)

\* what the C7 claim says of a name-based get_team: at most two requests, the
\* search first; a second one exactly when the search succeeded with a match,
\* for the ID of the first match; a returned Team is built from that response
NameBasedOrder(c) ==
    LET n == Len(c.reqs)
        found == /\ n >= 1 /\ ~IsError(c.reqs[1].status_code)
                 /\ Len(c.reqs[1].json.v.teams.v) > 0
    IN /\ n <= 2
       /\ n >= 1 => IsSearchOf(c.reqs[1], TeamName(c))
       /\ n = 2 <=> found
       /\ n = 2 => IsTeamById(c.reqs[2], c.reqs[1].json.v.teams.v[1].v.id)
       /\ c.ret.t = "obj" =>
             (n = 2 /\ c.ret.cls = "Team" /\ c.ret.data = c.reqs[2].json)

\* C7 (as claimed): every query operation sends exactly one request, except
\* name-based get_team, which sends at most two, in the order above.
C7_ExactlyOneRequest ==
    call.op \in QueryOps =>
        IF NameBased(call) THEN NameBasedOrder(call) ELSE Len(call.reqs) = 1

\* C7 (amended): as claimed, except that a get_team call with neither a usable
\* team_id nor a usable team_name sends no request and raises ValueError.
C7_OneRequestUnlessNoArguments ==
    call.op \in QueryOps =>
        IF NameBased(call) THEN NameBasedOrder(call)
        ELSE IF call.op = "get_team" /\ ~UsableId(call)
        THEN Len(call.reqs) = 0 /\ call.exc = "ValueError"
        ELSE /\ Len(call.reqs) = 1
             /\ call.op = "get_team" => IsTeamById(call.reqs[1], TeamId(call))

C7_Witness ==
    /\ NameBased(call) /\ Len(call.reqs) = 2
    /\ Len(call.reqs[1].json.v.teams.v) = 2
    /\ call.reqs[1].json.v.teams.v[1].v.id # call.reqs[1].json.v.teams.v[2].v.id
    /\ call.ret.t = "obj"

\* C8 (as claimed): get_team given both a team_id and a team_name sends only the
\* by-ID request for that team_id and never searches by the name.
C8_IdTakesPrecedence ==
    (call.op = "get_team" /\ TeamId(call).t # "none" /\ TeamName(call).t # "none")
        => (Len(call.reqs) = 1 /\ IsTeamById(call.reqs[1], TeamId(call)))

\* C9 (as claimed): a successful search_teams returns None exactly when the
\* response's team list is empty, and otherwise a dict with an entry for every
\* team of the list, keyed by team ID with the team name as value.
C9_NoneIffNoTeams ==
    (call.op = "search_teams" /\ ~SomeErrorStatus(call)) =>
        LET teams == call.reqs[1].json.v.teams.v
        IN /\ call.ret = PyNone <=> Len(teams) = 0
           /\ Len(teams) > 0 =>
                 /\ call.ret.t = "dict"
                 /\ DOMAIN call.ret.v = {teams[i].v.id.v : i \in 1..Len(teams)}
                 /\ \A i \in 1..Len(teams) : call.ret.v[teams[i].v.id.v] = teams[i].v.name

\* C10 (as claimed): the auth header always carries the last successfully
\* validated api_key; a construction whose validation request fails changes neither.
C10_HeaderIsValidatedKey == headers = api_key

(***************************************************************************)
(* Properties of Fixture.__init__.                                         *)
(***************************************************************************)
RequiredAttrs ==
    {"date", "status", "matchday", "home_team", "home_team_id",
     "away_team", "away_team_id", "competition_id"}

\* the optional parts that are present have their own keys
OptionalWellFormed(d) ==
    Has(d, "result") =>
        (Has(Get(d, "result"), "goalsHomeTeam") /\ Has(Get(d, "result"), "goalsAwayTeam"))

\* C3 (as claimed): a document with every required key builds a Fixture with
\* every required field set, whichever optional parts are absent, and an absent
\* result or odds is the attribute None, not an unset attribute.
C3_OptionalAbsentIsNone ==
    (fixture.t = "obj" /\ HasRequired(data) /\ OptionalWellFormed(data)) =>
        /\ fixture.exc = "none"
        /\ RequiredAttrs \subseteq DOMAIN fixture.attrs
        /\ ~Has(data, "result") =>
              ("result" \in DOMAIN fixture.attrs /\ fixture.attrs.result = PyNone)
        /\ ~Has(data, "odds") =>
              ("odds" \in DOMAIN fixture.attrs /\ fixture.attrs.odds = PyNone)
        /\ (Has(data, "result") /\ ~Has(Get(data, "result"), "halfTime")) =>
              ( /\ "result" \in DOMAIN fixture.attrs
                /\ fixture.attrs.result.t = "dict" =>
                      "half_time" \notin DOMAIN fixture.attrs.result.v )

\* C4 (as claimed): a document that lacks a required key makes the constructor
\* raise, so that no Fixture object is returned for it.
C4_MissingRequiredRaises ==
    (fixture.t = "obj" /\ ~HasRequired(data)) => fixture.exc # "none"

====
